---- MODULE Spec2Model ----
(***************************************************************************)
(* The port registry of SerialLibrary (src/src/SerialLibrary/__init__.py): *)
(* the insertion-ordered mapping of port locators to transport handles,    *)
(* the current port locator and the default parameter set, with the        *)
(* keywords that act on them.  The code targets Python 2 (OrderedDict.keys *)
(* is a list, `unicode` is a builtin).  The transport (pySerial) is the    *)
(* environment: constructing a handle or closing one may raise.            *)
(***************************************************************************)
EXTENDS Integers, Sequences, FiniteSets, TLC

VARIABLES
    ports,       \* self._ports: sequence of [locator, port], in insertion order
    current,     \* self._current_port_locator
    defaults,    \* self._defaults: parameter name -> Python value
    leaked,      \* TRUE iff a handle the mapping no longer holds is still open
    encoding,    \* self._encoding
    last         \* the call that produced this state: keyword, arguments, outcome, return value

vars == <<ports, current, defaults, leaked, encoding, last>>

----------------------------------------------------------------------------
(* Bounds *)

\* number of distinct valid port locators the caller uses
NumLocators == 3

LocatorNames == <<"p1", "p2", "p3", "p4", "p5">>

Locators == {LocatorNames[i] : i \in 1..NumLocators}

----------------------------------------------------------------------------
(* Python values.  A value carries its runtime type, which decides coercion *)
(* and truthiness.                                                          *)

None == "None"   \* the locator argument None; no locator of the model is spelled this way

PyNone == [t |-> "none", s |-> "", n |-> 0, b |-> FALSE]

PyStr(s) == [t |-> "str", s |-> s, n |-> 0, b |-> FALSE]

PyInt(n) == [t |-> "int", s |-> "", n |-> n, b |-> FALSE]

PyBool(b) == [t |-> "bool", s |-> "", n |-> 0, b |-> b]

\* raised by a failed conversion (ValueError / TypeError)
PyError == [t |-> "error", s |-> "", n |-> 0, b |-> FALSE]

\* bool(x)
PyTruth(x) ==
    CASE x.t = "bool" -> x.b
      [] x.t = "int" -> x.n # 0
      [] x.t = "str" -> x.s # ""
      [] OTHER -> FALSE

\* str.upper() on the strings the callers pass
Upper(s) ==
    CASE s = "off" -> "OFF"
      [] s = "False" -> "FALSE"
      [] s = "true" -> "TRUE"
      [] s = "abc" -> "ABC"
      [] OTHER -> s

\* int(s) on the strings the callers pass: the digit strings convert, the
\* others raise ValueError
IsDigits(s) == s \in {"0", "1", "19200"}

StrToInt(s) ==
    CASE s = "0" -> 0
      [] s = "1" -> 1
      [] s = "19200" -> 19200

\* robot.utils.is_truthy: strings are true unless FALSE, NONE, NO, OFF, 0 or empty
\* (case-insensitive); anything else by bool()
is_truthy(item) ==
    IF item.t = "str"
    THEN Upper(item.s) \notin {"FALSE", "NONE", "NO", "OFF", "0", ""}
    ELSE PyTruth(item)

\* type(v)(value): conversion of value to the runtime type of v
CoerceTo(v, value) ==
    CASE v.t = "bool" -> PyBool(PyTruth(value))
      [] v.t = "int" ->
            CASE value.t = "int" -> value
              [] value.t = "bool" -> PyInt(IF value.b THEN 1 ELSE 0)
              [] value.t = "str" -> IF IsDigits(value.s) THEN PyInt(StrToInt(value.s)) ELSE PyError
              [] OTHER -> PyError
      [] OTHER -> PyError

----------------------------------------------------------------------------
(* The default parameter set *)

\* two of the ten settings of SerialBase.get_settings(): one int, one bool
DEFAULT_SETTINGS == [baudrate |-> PyInt(9600), xonxoff |-> PyBool(FALSE)]

ParamNames == DOMAIN DEFAULT_SETTINGS

----------------------------------------------------------------------------
(* The ordered mapping *)

Keys(ps) == [i \in 1..Len(ps) |-> ps[i].locator]

KeySet(ps) == {ps[i].locator : i \in 1..Len(ps)}

IndexOf(ps, l) == CHOOSE i \in 1..Len(ps) : ps[i].locator = l

\* OrderedDict.get(l)
Get(ps, l) == ps[IndexOf(ps, l)].port

\* OrderedDict.pop(l): the entries left
Pop(ps, l) == SelectSeq(ps, LAMBDA e : e.locator # l)

\* the handle under l replaced by h
Put(ps, l, h) == [i \in 1..Len(ps) |-> IF ps[i].locator = l THEN [ps[i] EXCEPT !.port = h] ELSE ps[i]]

\* the record of a call: keyword, arguments as given, outcome and return value.
\* name: the parameter or control line the call names, or, for the keywords of
\* the encoding and those that read and write, the encoding argument.
\* result: "ok", "usage" (asserts.fail), "value" (a conversion raised) or
\* "transport" (the transport raised); target: the locator the call resolved to;
\* constructed: whether the call constructed a transport handle; prev: the
\* current port locator when the call was made
Call(op, l, name, arg, result, target, ret, constructed) ==
    [op |-> op, locator |-> l, name |-> name, arg |-> arg,
     result |-> result, target |-> target, ret |-> ret, constructed |-> constructed,
     prev |-> current]

NoKwargs == [k \in {} |-> PyNone]

----------------------------------------------------------------------------
(* __init__ (lines 127-159): the library with no port, or with the port    *)
(* given at import added by add_port and made current.                      *)

\* a handle as the transport constructs it: open, with the settings given, RTS
\* and DTR asserted, RS-485 mode None and nothing to read.  rts is kept as a
\* number (True is 1 in Python), dtr as a truth value.
NewPort(settings) ==
    [is_open |-> TRUE, settings |-> settings,
     rts |-> 1, dtr |-> TRUE, rs485_mode |-> None,
     buffer |-> <<>>]

Init ==
    /\ defaults = DEFAULT_SETTINGS
    /\ encoding = "hexlify"
    /\ leaked = FALSE
    /\ \E l \in {None} \cup Locators :
          /\ ports = IF l = None THEN <<>> ELSE <<[locator |-> l, port |-> NewPort(DEFAULT_SETTINGS)]>>
          /\ current = l
          /\ last = [Call("__init__", l, "", PyNone, "ok", l, PyNone, l # None) EXCEPT !.prev = None]

----------------------------------------------------------------------------
(* _port (lines 175-189) *)

\* as ResolveLocator, with the token '_' taken for a locator
ResolveLocator_NoToken(l, cur) == IF l = None THEN cur ELSE l

\* line 184-185: None and '_' stand for the current port
ResolveLocator(l, cur) == IF l \in {None, "_"} THEN cur ELSE l

\* the outcome of self._port(l, fail): the locator of the handle returned
\* (None: no handle) and whether asserts.fail was called
PortLookup(l, fail) ==
    LET target == ResolveLocator(l, current)
        found == target \in KeySet(ports)
    IN  [target |-> target,
         found |-> found,
         failed |-> ~found /\ is_truthy(fail)]

_port(l, fail) ==
    LET r == PortLookup(l, fail)
    IN  /\ last' = Call("_port", l, "", fail,
                        IF r.failed THEN "usage" ELSE "ok", r.target,
                        IF r.found THEN PyStr(r.target) ELSE PyNone, FALSE)
        /\ UNCHANGED <<ports, current, defaults, leaked, encoding>>

----------------------------------------------------------------------------
(* add_port (lines 300-335) *)

\* as AddPortRejects, without the test for a locator in use
AddPortRejects_NoDuplicateTest(l, ps) == l \in {None, "", "_"}

\* lines 317-320: the locators add_port refuses
AddPortRejects(l, ps) == l \in {None, "", "_"} \/ l \in KeySet(ps)

\* as SerialKw, the overrides of the caller left out
SerialKw_DefaultsOnly(kwargs) == defaults

\* lines 321-323: each default overridden by the caller's value, converted to
\* the default's type
SerialKw(kwargs) ==
    [k \in DOMAIN defaults |->
        CoerceTo(defaults[k], IF k \in DOMAIN kwargs THEN kwargs[k] ELSE defaults[k])]

\* as MakesCurrent, without the rule for a registry with no current port
MakesCurrent_OnlyOnRequest(cur, make_current) == PyTruth(make_current)

\* line 333: make_current is used as given, by its truth value
MakesCurrent(cur, make_current) == cur = None \/ PyTruth(make_current)

\* line 331: the new port is closed when open is false for robot
ClosesAfterAdd(open) == ~is_truthy(open)

add_port(l, open, make_current, kwargs, constructs, closes) ==
    LET serial_kw == SerialKw(kwargs)
        entry(h) == [locator |-> l, port |-> h]
        done(result, made) ==
            last' = Call("add_port", l, "", make_current, result, l,
                         IF result = "ok" THEN PyStr(l) ELSE PyNone, made)
    IN  IF AddPortRejects(l, ports)
        THEN /\ done("usage", FALSE)
             /\ UNCHANGED <<ports, current, defaults, leaked, encoding>>
        ELSE IF \E k \in DOMAIN serial_kw : serial_kw[k] = PyError
        THEN /\ done("value", FALSE)
             /\ UNCHANGED <<ports, current, defaults, leaked, encoding>>
        ELSE IF ~constructs
        THEN \* serial_for_url and Serial both raised
             /\ done("transport", FALSE)
             /\ UNCHANGED <<ports, current, defaults, leaked, encoding>>
        ELSE IF ClosesAfterAdd(open) /\ ~closes
        THEN \* line 330 has stored the port; close() at line 332 raised
             /\ ports' = Append(ports, entry(NewPort(serial_kw)))
             /\ done("transport", TRUE)
             /\ UNCHANGED <<current, defaults, leaked, encoding>>
        ELSE /\ ports' = Append(ports, entry([NewPort(serial_kw) EXCEPT !.is_open = ~ClosesAfterAdd(open)]))
             /\ current' = IF MakesCurrent(current, make_current) THEN l ELSE current
             /\ done("ok", TRUE)
             /\ UNCHANGED <<defaults, leaked, encoding>>

----------------------------------------------------------------------------
(* delete_port (lines 337-362) *)

\* as NewCurrentAfterDelete, no port promoted
NewCurrentAfterDelete_None(ps) == None

\* lines 359-361: the current port after the current one was deleted:
\* self._ports.keys()[-1], the last key in insertion order, or None
NewCurrentAfterDelete(ps) == IF Len(ps) = 0 THEN None ELSE ps[Len(ps)].locator

delete_port(l, closes) ==
    LET target == IF l = None THEN current ELSE l
        done(result) == last' = Call("delete_port", l, "", PyNone, result, target, PyNone, FALSE)
    IN  IF target \notin KeySet(ports)
        THEN /\ done("usage")
             /\ UNCHANGED <<ports, current, defaults, leaked, encoding>>
        ELSE LET port == Get(ports, target)
                 rest == Pop(ports, target)
             IN  IF port.is_open /\ ~closes
                 THEN \* line 353 has removed the entry; close() at line 355 raised
                      /\ ports' = rest
                      /\ leaked' = TRUE
                      /\ done("transport")
                      /\ UNCHANGED <<current, defaults, encoding>>
                 ELSE /\ ports' = rest
                      /\ current' = IF target = current THEN NewCurrentAfterDelete(rest) ELSE current
                      /\ done("ok")
                      /\ UNCHANGED <<defaults, leaked, encoding>>

----------------------------------------------------------------------------
(* delete_all_ports (lines 364-375) *)

\* lines 371-375: popitem() takes the entries from the last inserted to the
\* first, closing each open one; the close of the port under `failing` raises
RECURSIVE PopAll(_, _)
PopAll(ps, failing) ==
    IF Len(ps) = 0
    THEN [ports |-> ps, leaks |-> FALSE, ok |-> TRUE]
    ELSE LET e == ps[Len(ps)]
             rest == SubSeq(ps, 1, Len(ps) - 1)
         IN  IF e.port.is_open /\ e.locator = failing
             THEN [ports |-> rest, leaks |-> TRUE, ok |-> FALSE]
             ELSE PopAll(rest, failing)

delete_all_ports(failing) ==
    LET r == PopAll(ports, failing)
    IN  /\ current' = None
        /\ ports' = r.ports
        /\ leaked' = (leaked \/ r.leaks)
        /\ last' = Call("delete_all_ports", None, "", PyNone,
                        IF r.ok THEN "ok" ELSE "transport",
                        IF r.ok THEN None ELSE failing, PyNone, FALSE)
        /\ UNCHANGED <<defaults, encoding>>

----------------------------------------------------------------------------
(* switch_port (lines 420-429) *)

\* as SwitchPortRejects, accepting any locator but None
SwitchPortRejects_OnlyNone(l, ps) == l = None

\* lines 427-428
SwitchPortRejects(l, ps) == l \notin KeySet(ps)

switch_port(l) ==
    IF SwitchPortRejects(l, ports)
    THEN /\ last' = Call("switch_port", l, "", PyNone, "usage", l, PyNone, FALSE)
         /\ UNCHANGED <<ports, current, defaults, leaked, encoding>>
    ELSE /\ current' = l
         /\ last' = Call("switch_port", l, "", PyNone, "ok", l, PyNone, FALSE)
         /\ UNCHANGED <<ports, defaults, leaked, encoding>>

----------------------------------------------------------------------------
(* set_default_parameters, reset_default_parameters (lines 244-268) *)

\* the orders in which a dict with the keys S may be iterated
Orders(S) == {o \in [1..Cardinality(S) -> S] : \A i, j \in DOMAIN o : o[i] = o[j] => i = j}

\* lines 255-258: the keys taken one at a time in the order `order`; a key of
\* the defaults is converted to the stored type and stored at once, another key
\* is skipped, and a conversion that raises ends the loop
RECURSIVE UpdateDefaults(_, _, _)
UpdateDefaults(d, params, order) ==
    IF Len(order) = 0
    THEN [defaults |-> d, ok |-> TRUE]
    ELSE LET key == Head(order)
         IN  IF key \in DOMAIN d
             THEN LET v == CoerceTo(d[key], params[key])
                  IN  IF v = PyError
                      THEN [defaults |-> d, ok |-> FALSE]
                      ELSE UpdateDefaults([d EXCEPT ![key] = v], params, Tail(order))
             ELSE UpdateDefaults(d, params, Tail(order))

set_default_parameters(params, order) ==
    LET r == UpdateDefaults(defaults, params, order)
    IN  /\ defaults' = r.defaults
        /\ last' = Call("set_default_parameters", None, "", params,
                        IF r.ok THEN "ok" ELSE "value", None,
                        IF r.ok THEN defaults ELSE PyNone, FALSE)
        /\ UNCHANGED <<ports, current, leaked, encoding>>

reset_default_parameters ==
    /\ defaults' = DEFAULT_SETTINGS
    /\ last' = Call("reset_default_parameters", None, "", PyNone, "ok", None, PyNone, FALSE)
    /\ UNCHANGED <<ports, current, leaked, encoding>>

----------------------------------------------------------------------------
(* get_port_parameter, set_port_parameter (lines 431-465) *)

\* lines 443, 459
WrongParameterName(name) == name \notin DOMAIN defaults

get_port_parameter(name, l) ==
    LET r == PortLookup(l, PyBool(TRUE))
        done(result, ret) == last' = Call("get_port_parameter", l, name, PyNone, result, r.target, ret, FALSE)
    IN  /\ IF WrongParameterName(name) \/ r.failed
           THEN done("usage", PyNone)
           ELSE done("ok", Get(ports, r.target).settings[name])
        /\ UNCHANGED <<ports, current, defaults, leaked, encoding>>

\* as ParameterValue, the value stored as given
ParameterValue_AsGiven(name, value) == value

\* lines 463-464: the value converted to the type of the default of that name
ParameterValue(name, value) == CoerceTo(defaults[name], value)

set_port_parameter(name, value, l) ==
    LET r == PortLookup(l, PyBool(TRUE))
        done(result, ret) == last' = Call("set_port_parameter", l, name, value, result, r.target, ret, FALSE)
    IN  IF WrongParameterName(name) \/ r.failed
        THEN /\ done("usage", PyNone)
             /\ UNCHANGED <<ports, current, defaults, leaked, encoding>>
        ELSE LET port == Get(ports, r.target)
                 v == ParameterValue(name, value)
             IN  IF v = PyError
                 THEN /\ done("value", PyNone)
                      /\ UNCHANGED <<ports, current, defaults, leaked, encoding>>
                 ELSE /\ ports' = Put(ports, r.target, [port EXCEPT !.settings[name] = v])
                      /\ done("ok", port.settings[name])
                      /\ UNCHANGED <<current, defaults, leaked, encoding>>

----------------------------------------------------------------------------
(* is_truthy_on_off (lines 45-51) and the keywords of the control lines     *)
(* (lines 621-656, 722-728)                                                 *)

\* str.strip() on the strings the callers pass
Strip(s) ==
    CASE s = " off " -> "off"
      [] s = " 1 " -> "1"
      [] OTHER -> s

\* lines 45-51: a string is stripped; a digit string is true unless it is
\* zero; another string is true unless FALSE, NO, 0, OFF or empty
\* (case-insensitive); anything else by bool()
is_truthy_on_off(item) ==
    IF item.t = "str"
    THEN LET s == Strip(item.s)
         IN  IF IsDigits(s)
             THEN StrToInt(s) # 0
             ELSE Upper(Strip(s)) \notin {"FALSE", "NO", "0", "OFF", ""}
    ELSE PyTruth(item)

\* line 640: getattr(port, attr), as a number: True is 1 and False is 0
LineStatus(port, attr) == IF attr = "rts" THEN port.rts ELSE IF port.dtr THEN 1 ELSE 0

\* lines 625-627: rts is assigned the truth value, then 1 or 0
set_rts(value, l) ==
    LET r == PortLookup(l, PyBool(TRUE))
        done(result) == last' = Call("set_rts", l, "rts", value, result, r.target, PyNone, FALSE)
    IN  IF r.failed
        THEN /\ done("usage")
             /\ UNCHANGED <<ports, current, defaults, leaked, encoding>>
        ELSE /\ ports' = Put(ports, r.target,
                             [Get(ports, r.target) EXCEPT !.rts = IF is_truthy_on_off(value) THEN 1 ELSE 0])
             /\ done("ok")
             /\ UNCHANGED <<current, defaults, leaked, encoding>>

\* line 633
set_dtr(value, l) ==
    LET r == PortLookup(l, PyBool(TRUE))
        done(result) == last' = Call("set_dtr", l, "dtr", value, result, r.target, PyNone, FALSE)
    IN  IF r.failed
        THEN /\ done("usage")
             /\ UNCHANGED <<ports, current, defaults, leaked, encoding>>
        ELSE /\ ports' = Put(ports, r.target,
                             [Get(ports, r.target) EXCEPT !.dtr = is_truthy_on_off(value)])
             /\ done("ok")
             /\ UNCHANGED <<current, defaults, leaked, encoding>>

\* line 728
set_rs485_mode(status, l) ==
    LET r == PortLookup(l, PyBool(TRUE))
        done(result) == last' = Call("set_rs485_mode", l, "rs485_mode", status, result, r.target, PyNone, FALSE)
    IN  IF r.failed
        THEN /\ done("usage")
             /\ UNCHANGED <<ports, current, defaults, leaked, encoding>>
        ELSE /\ ports' = Put(ports, r.target,
                             [Get(ports, r.target) EXCEPT !.rs485_mode = is_truthy_on_off(status)])
             /\ done("ok")
             /\ UNCHANGED <<current, defaults, leaked, encoding>>

\* lines 635-644, for rts_should_be and dtr_should_be (lines 646-656): the
\* expected value is 1 or 0 and is compared with the status of the line
_attr_should_be(attr, value, l) ==
    LET r == PortLookup(l, PyBool(TRUE))
        expected == IF is_truthy_on_off(value) THEN 1 ELSE 0
        done(result) == last' = Call("_attr_should_be", l, attr, value, result, r.target, PyNone, FALSE)
    IN  /\ IF r.failed
           THEN done("usage")
           ELSE LET status == LineStatus(Get(ports, r.target), attr)
                IN  done(IF expected # status THEN "usage" ELSE "ok")
        /\ UNCHANGED <<ports, current, defaults, leaked, encoding>>

----------------------------------------------------------------------------
(* The callers' inputs *)

LocatorArgs == Locators \cup {None, "", "_"}

BoolArgs == {PyBool(TRUE), PyBool(FALSE)}

\* what the transport does during a call: nothing wrong, the constructor
\* raises, or close() raises
TransportOutcomes == {"works", "constructor raises", "close raises"}

\* the registry keywords, every port with the default settings
Next ==
    \/ \E l \in LocatorArgs, open \in BoolArgs, make_current \in BoolArgs, transport \in TransportOutcomes :
            add_port(l, open, make_current, NoKwargs, transport # "constructor raises", transport # "close raises")
    \/ \E l \in LocatorArgs, closes \in BOOLEAN : delete_port(l, closes)
    \/ \E failing \in Locators \cup {None} : delete_all_ports(failing)
    \/ \E l \in LocatorArgs : switch_port(l)
    \/ \E l \in LocatorArgs, fail \in BoolArgs : _port(l, fail)

Spec == Init /\ [][Next]_vars

----------------------------------------------------------------------------
(* The registry keywords on a transport that does not fail: every call      *)
(* returns or fails as a usage failure                                      *)

NextUsage ==
    \/ \E l \in LocatorArgs, open \in BoolArgs, make_current \in BoolArgs :
            add_port(l, open, make_current, NoKwargs, TRUE, TRUE)
    \/ \E l \in LocatorArgs : delete_port(l, TRUE)
    \/ delete_all_ports(None)
    \/ \E l \in LocatorArgs : switch_port(l)

SpecUsage == Init /\ [][NextUsage]_vars

----------------------------------------------------------------------------
(* The keywords of the port parameters, on a registry of fewer ports and    *)
(* under the default parameter set of the import                            *)

\* number of locators in the specification of the parameter keywords
NumParamLocators == 2

ParamLocators == {LocatorNames[i] : i \in 1..NumParamLocators}

ParamLocatorArgs == ParamLocators \cup {None}

\* parameter names the callers pass: the two settings and one that is none
ParamNameArgs == ParamNames \cup {"dtr"}

ValueArgs == {PyStr("19200"), PyInt(9600), PyStr("")}

Dict1(k, v) == [x \in {k} |-> v]

Dict2(k1, v1, k2, v2) == [x \in {k1, k2} |-> IF x = k1 THEN v1 ELSE v2]

\* the dictionaries passed to set_default_parameters and, as keyword
\* arguments, to add_port
ParamsArgs ==
    {Dict1("baudrate", PyStr("19200")),
     Dict1("xonxoff", PyInt(9600)),
     Dict1("dtr", PyStr("abc")),
     Dict2("baudrate", PyStr("abc"), "xonxoff", PyStr("abc"))}

KwargsArgs ==
    {NoKwargs,
     Dict2("baudrate", PyStr("19200"), "dtr", PyStr("abc")),
     Dict1("xonxoff", PyInt(9600)),
     Dict1("baudrate", PyStr("abc"))}

InitParam ==
    /\ encoding = "hexlify"
    /\ ports = <<>>
    /\ current = None
    /\ defaults = DEFAULT_SETTINGS
    /\ leaked = FALSE
    /\ last = [Call("__init__", None, "", PyNone, "ok", None, PyNone, FALSE) EXCEPT !.prev = None]

NextParam ==
    \/ \E l \in ParamLocatorArgs, kwargs \in KwargsArgs :
            add_port(l, PyBool(TRUE), PyBool(FALSE), kwargs, TRUE, TRUE)
    \/ \E l \in ParamLocatorArgs : delete_port(l, TRUE)
    \/ \E l \in ParamLocators : switch_port(l)
    \/ \E name \in ParamNameArgs, l \in ParamLocatorArgs : get_port_parameter(name, l)
    \/ \E name \in ParamNameArgs, value \in ValueArgs, l \in ParamLocatorArgs : set_port_parameter(name, value, l)

SpecParam == InitParam /\ [][NextParam]_vars

----------------------------------------------------------------------------
(* The keywords of the default parameter set, with the ports added under it *)

NextDefaults ==
    \/ \E l \in ParamLocatorArgs, kwargs \in KwargsArgs :
            add_port(l, PyBool(TRUE), PyBool(FALSE), kwargs, TRUE, TRUE)
    \/ \E l \in ParamLocatorArgs : delete_port(l, TRUE)
    \/ \E params \in ParamsArgs : \E order \in Orders(DOMAIN params) : set_default_parameters(params, order)
    \/ reset_default_parameters
    \/ \E name \in ParamNameArgs, l \in ParamLocatorArgs : get_port_parameter(name, l)

SpecDefaults == InitParam /\ [][NextDefaults]_vars

----------------------------------------------------------------------------
(* Texts, bytes and the two codecs.  A text is a sequence of code points, a *)
(* byte string a sequence of numbers below 256.                             *)

\* what a conversion that raises yields; no byte string has a negative byte
CodecError == <<-1>>

\* str.split(), str.rstrip(): the whitespace characters
IsSpace(c) == c \in {9, 10, 11, 12, 13, 32}

\* the digits int(h, 16) accepts: 0-9, A-F, a-f
IsHexDigit(c) == (48 <= c /\ c <= 57) \/ (65 <= c /\ c <= 70) \/ (97 <= c /\ c <= 102)

HexValue(c) == IF c <= 57 THEN c - 48 ELSE IF c <= 70 THEN c - 55 ELSE c - 87

\* '{:02X}': the upper-case digit of d
HexChar(d) == IF d < 10 THEN 48 + d ELSE 55 + d

\* data.split(): the maximal runs of characters that are not whitespace
RECURSIVE Tokens(_, _)
Tokens(text, tok) ==
    IF text = <<>>
    THEN IF tok = <<>> THEN <<>> ELSE <<tok>>
    ELSE IF IsSpace(Head(text))
         THEN (IF tok = <<>> THEN <<>> ELSE <<tok>>) \o Tokens(Tail(text), <<>>)
         ELSE Tokens(Tail(text), Append(tok, Head(text)))

Split(text) == Tokens(text, <<>>)

\* int(h, 16)
RECURSIVE IntBase16(_, _)
IntBase16(tok, acc) ==
    IF tok = <<>> THEN acc ELSE IntBase16(Tail(tok), acc * 16 + HexValue(Head(tok)))

\* serial.tools.hexlify_codec.hex_encode: '41 42' -> b'AB'; a token that is
\* no hexadecimal number or is above 255 raises ValueError
hex_encode(text) ==
    LET toks == Split(text)
    IN  IF \A i \in DOMAIN toks :
              /\ \A j \in DOMAIN toks[i] : IsHexDigit(toks[i][j])
              /\ IntBase16(toks[i], 0) <= 255
        THEN [i \in DOMAIN toks |-> IntBase16(toks[i], 0)]
        ELSE CodecError

\* serial.tools.hexlify_codec.hex_decode: b'AB' -> '41 42 ', each byte as two
\* upper-case digits and a space
RECURSIVE hex_decode(_)
hex_decode(data) ==
    IF data = <<>>
    THEN <<>>
    ELSE <<HexChar(Head(data) \div 16), HexChar(Head(data) % 16), 32>> \o hex_decode(Tail(data))

\* str.rstrip()
RECURSIVE RStrip(_)
RStrip(text) ==
    IF text # <<>> /\ IsSpace(text[Len(text)])
    THEN RStrip(SubSeq(text, 1, Len(text) - 1))
    ELSE text

\* as hexlify_decode_plus, without the rstrip
hexlify_decode_plus_NoStrip(data) == hex_decode(data)

\* lines 26-28
hexlify_decode_plus(data) == RStrip(hex_decode(data))

\* the ascii codec, strict: a code point above 127 raises UnicodeEncodeError
ascii_encode(text) ==
    IF \A i \in DOMAIN text : text[i] < 128 THEN text ELSE CodecError

\* the ascii codec, errors='replace': a byte above 127 becomes U+FFFD
ascii_decode(data) == [i \in DOMAIN data |-> IF data[i] < 128 THEN data[i] ELSE 65533]

\* the encodings a caller names; None and the empty string name none
Encodings == {"hexlify", "ascii"}

\* lines 167, 173: `encoding or self._encoding`
EncodingUsed(enc) == IF enc \in {None, ""} THEN encoding ELSE enc

\* lines 161-167
_encode(ustring, enc) ==
    IF EncodingUsed(enc) = "hexlify" THEN hex_encode(ustring) ELSE ascii_encode(ustring)

\* lines 169-173
_decode(bstring, enc) ==
    IF EncodingUsed(enc) = "hexlify" THEN hexlify_decode_plus(bstring) ELSE ascii_decode(bstring)

----------------------------------------------------------------------------
(* set_encoding (lines 197-207) and the keywords that read and write        *)
(* (lines 467-587), on the transport of loop://, where what is written to   *)
(* a port is what is read from it                                           *)

\* the number of bytes a port holds unread
MaxBuffer == 4

\* serial.serialutil.LF
LF == <<10>>

set_encoding(enc) ==
    /\ encoding' = IF enc \in {None, ""} THEN encoding ELSE enc
    /\ last' = Call("set_encoding", None, enc, PyNone, "ok", None, PyStr(encoding), FALSE)
    /\ UNCHANGED <<ports, current, defaults, leaked>>

\* lines 583-587, for data that is a text; in the record of the call, name is
\* the encoding argument
write_data(data, enc, l) ==
    LET r == PortLookup(l, PyBool(TRUE))
        bdata == _encode(data, enc)
        done(result) == last' = Call("write_data", l, enc, data, result, r.target, PyNone, FALSE)
    IN  IF bdata = CodecError
        THEN /\ done("value")
             /\ UNCHANGED <<ports, current, defaults, leaked, encoding>>
        ELSE IF r.failed
        THEN /\ done("usage")
             /\ UNCHANGED <<ports, current, defaults, leaked, encoding>>
        ELSE LET port == Get(ports, r.target)
             IN  IF ~port.is_open
                 THEN /\ done("transport")
                      /\ UNCHANGED <<ports, current, defaults, leaked, encoding>>
                 ELSE /\ Len(port.buffer) + Len(bdata) <= MaxBuffer
                      /\ ports' = Put(ports, r.target, [port EXCEPT !.buffer = port.buffer \o bdata])
                      /\ done("ok")
                      /\ UNCHANGED <<current, defaults, leaked, encoding>>

\* lines 467-473
read_all_data(enc, l) ==
    LET r == PortLookup(l, PyBool(TRUE))
        done(result, ret) == last' = Call("read_all_data", l, enc, PyNone, result, r.target, ret, FALSE)
    IN  IF r.failed
        THEN /\ done("usage", PyNone)
             /\ UNCHANGED <<ports, current, defaults, leaked, encoding>>
        ELSE LET port == Get(ports, r.target)
             IN  IF ~port.is_open
                 THEN /\ done("transport", PyNone)
                      /\ UNCHANGED <<ports, current, defaults, leaked, encoding>>
                 ELSE /\ ports' = Put(ports, r.target, [port EXCEPT !.buffer = <<>>])
                      /\ done("ok", _decode(port.buffer, enc))
                      /\ UNCHANGED <<current, defaults, leaked, encoding>>

\* lines 562-572: the bytes read are decoded by self._decode(...) with no
\* encoding argument
read_n_bytes(size, enc, l) ==
    LET r == PortLookup(l, PyBool(TRUE))
        n == IF size.t = "str" THEN CoerceTo(PyInt(0), size) ELSE size
        done(result, ret) == last' = Call("read_n_bytes", l, enc, size, result, r.target, ret, FALSE)
    IN  IF n = PyError
        THEN /\ done("value", PyNone)
             /\ UNCHANGED <<ports, current, defaults, leaked, encoding>>
        ELSE IF r.failed
        THEN /\ done("usage", PyNone)
             /\ UNCHANGED <<ports, current, defaults, leaked, encoding>>
        ELSE LET port == Get(ports, r.target)
                 k == IF n.n < Len(port.buffer) THEN n.n ELSE Len(port.buffer)
             IN  IF ~port.is_open
                 THEN /\ done("transport", PyNone)
                      /\ UNCHANGED <<ports, current, defaults, leaked, encoding>>
                 ELSE /\ ports' = Put(ports, r.target,
                                      [port EXCEPT !.buffer = SubSeq(port.buffer, k + 1, Len(port.buffer))])
                      /\ done("ok", _decode(SubSeq(port.buffer, 1, k), None))
                      /\ UNCHANGED <<current, defaults, leaked, encoding>>

\* Serial.read_until(terminator, size): the number of bytes taken from buf,
\* up to and with the first occurrence of the terminator, or size bytes, or
\* all there is when the read times out
ReadUntilLength(buf, terminator, size) ==
    LET stops(k) ==
            \/ /\ terminator # <<>>
               /\ k >= Len(terminator)
               /\ SubSeq(buf, k - Len(terminator) + 1, k) = terminator
            \/ size # PyNone /\ k >= size.n
    IN  IF \E k \in 1..Len(buf) : stops(k)
        THEN CHOOSE k \in 1..Len(buf) : stops(k) /\ \A j \in 1..(k - 1) : ~stops(j)
        ELSE Len(buf)

\* lines 507-522: a terminator other than LF is encoded by self._encode(...)
\* with no encoding argument; the bytes read are decoded with the encoding
\* argument
read_until(terminator, size, enc, l) ==
    LET r == PortLookup(l, PyBool(TRUE))
        bterm == IF terminator # LF THEN _encode(terminator, None) ELSE LF
        done(result, ret) == last' = Call("read_until", l, enc, terminator, result, r.target, ret, FALSE)
    IN  IF bterm = CodecError
        THEN /\ done("value", PyNone)
             /\ UNCHANGED <<ports, current, defaults, leaked, encoding>>
        ELSE IF r.failed
        THEN /\ done("usage", PyNone)
             /\ UNCHANGED <<ports, current, defaults, leaked, encoding>>
        ELSE LET port == Get(ports, r.target)
                 k == ReadUntilLength(port.buffer, bterm, size)
             IN  IF ~port.is_open
                 THEN /\ done("transport", PyNone)
                      /\ UNCHANGED <<ports, current, defaults, leaked, encoding>>
                 ELSE /\ ports' = Put(ports, r.target,
                                      [port EXCEPT !.buffer = SubSeq(port.buffer, k + 1, Len(port.buffer))])
                      /\ done("ok", _decode(SubSeq(port.buffer, 1, k), enc))
                      /\ UNCHANGED <<current, defaults, leaked, encoding>>

\* lines 491-505: the data is encoded, all the port has is read, and the two
\* byte strings are compared
read_data_should_be(data, enc, l) ==
    LET r == PortLookup(l, PyBool(TRUE))
        bdata == _encode(data, enc)
        done(result) == last' = Call("read_data_should_be", l, enc, data, result, r.target, PyNone, FALSE)
    IN  IF bdata = CodecError
        THEN /\ done("value")
             /\ UNCHANGED <<ports, current, defaults, leaked, encoding>>
        ELSE IF r.failed
        THEN /\ done("usage")
             /\ UNCHANGED <<ports, current, defaults, leaked, encoding>>
        ELSE LET port == Get(ports, r.target)
             IN  IF ~port.is_open
                 THEN /\ done("transport")
                      /\ UNCHANGED <<ports, current, defaults, leaked, encoding>>
                 ELSE /\ ports' = Put(ports, r.target, [port EXCEPT !.buffer = <<>>])
                      /\ done(IF port.buffer # bdata THEN "usage" ELSE "ok")
                      /\ UNCHANGED <<current, defaults, leaked, encoding>>

----------------------------------------------------------------------------
(* The boolean-like arguments given as strings, as a test suite passes them *)

\* the strings passed for a boolean-like argument
TruthArgs == {PyStr(s) : s \in {"OFF", "off", "False", "NO", "0", "", "ON", "true", "YES", "1"}}

\* add_port with a string for open, for make_current or for the xonxoff
\* override; set_port_parameter and set_default_parameters with a string for
\* xonxoff
NextTruthy ==
    \/ \E l \in ParamLocators, open \in TruthArgs :
            add_port(l, open, PyBool(FALSE), NoKwargs, TRUE, TRUE)
    \/ \E l \in ParamLocators, make_current \in TruthArgs :
            add_port(l, PyBool(TRUE), make_current, NoKwargs, TRUE, TRUE)
    \/ \E l \in ParamLocators, value \in TruthArgs :
            add_port(l, PyBool(TRUE), PyBool(FALSE), Dict1("xonxoff", value), TRUE, TRUE)
    \/ \E l \in ParamLocatorArgs : delete_port(l, TRUE)
    \/ \E value \in TruthArgs, l \in ParamLocatorArgs : set_port_parameter("xonxoff", value, l)
    \/ \E value \in TruthArgs : set_default_parameters(Dict1("xonxoff", value), <<"xonxoff">>)

SpecTruthy == InitParam /\ [][NextTruthy]_vars

\* the strings passed to the keywords of the control lines
OnOffArgs == TruthArgs \cup {PyStr(" off "), PyStr(" 1 ")}

\* the keywords of the control lines, on the port given at import
InitLines ==
    /\ encoding = "hexlify"
    /\ ports = <<[locator |-> "p1", port |-> NewPort(DEFAULT_SETTINGS)]>>
    /\ current = "p1"
    /\ defaults = DEFAULT_SETTINGS
    /\ leaked = FALSE
    /\ last = [Call("__init__", "p1", "", PyNone, "ok", "p1", PyNone, TRUE) EXCEPT !.prev = None]

NextLines ==
    \/ \E value \in OnOffArgs, l \in {None, "p1", "p2"} : set_rts(value, l)
    \/ \E value \in OnOffArgs, l \in {None, "p1", "p2"} : set_dtr(value, l)
    \/ \E value \in OnOffArgs, l \in {None, "p1", "p2"} : set_rs485_mode(value, l)
    \/ \E attr \in {"rts", "dtr"}, value \in OnOffArgs, l \in {None, "p1", "p2"} : _attr_should_be(attr, value, l)

SpecLines == InitLines /\ [][NextLines]_vars

----------------------------------------------------------------------------
(* The keywords that read and write, on the port given at import *)

\* the texts 'AB', 'ab', '41', '41 42', 'B', the text of the one character
\* U+00E9, and the empty text
Text_AB == <<65, 66>>

Text_ab == <<97, 98>>

Text_41 == <<52, 49>>

Text_41_42 == <<52, 49, 32, 52, 50>>

Text_B == <<66>>

Text_e_acute == <<233>>

Text_empty == <<>>

EncodingArgs == Encodings \cup {None}

TextArgs == {Text_AB, Text_41, Text_e_acute}

TerminatorArgs == {LF, Text_B, Text_41}

SizeArgs == {PyInt(1), PyStr("1"), PyStr("abc")}

\* the locator arguments: the current port, and a port that was not added
IOLocatorArgs == {None, "p2"}

InitIO ==
    /\ ports = <<[locator |-> "p1", port |-> NewPort(DEFAULT_SETTINGS)]>>
    /\ current = "p1"
    /\ defaults = DEFAULT_SETTINGS
    /\ leaked = FALSE
    /\ encoding \in Encodings
    /\ last = [Call("__init__", "p1", encoding, PyNone, "ok", "p1", PyNone, TRUE) EXCEPT !.prev = None]

NextIO ==
    \/ \E enc \in EncodingArgs \cup {""} : set_encoding(enc)
    \/ \E data \in TextArgs, enc \in EncodingArgs, l \in IOLocatorArgs : write_data(data, enc, l)
    \/ \E enc \in EncodingArgs, l \in IOLocatorArgs : read_all_data(enc, l)
    \/ \E size \in SizeArgs, enc \in EncodingArgs, l \in IOLocatorArgs : read_n_bytes(size, enc, l)
    \/ \E terminator \in TerminatorArgs, enc \in EncodingArgs, l \in IOLocatorArgs :
            read_until(terminator, PyNone, enc, l)
    \/ \E data \in TextArgs, enc \in EncodingArgs, l \in IOLocatorArgs : read_data_should_be(data, enc, l)

SpecIO == InitIO /\ [][NextIO]_vars

----------------------------------------------------------------------------
(* Writing and reading back on loop:// ports: a text is written to a port   *)
(* that has nothing unread, and read back by read_all_data                  *)

LoopLocators == {"p1", "p2"}

LoopTexts == {Text_AB, Text_ab, Text_41_42, Text_e_acute, Text_empty}

\* the caller writes to a port when all that was written to it has been read
NothingUnread(l) ==
    LET r == PortLookup(l, PyBool(TRUE))
    IN  r.found => Get(ports, r.target).buffer = <<>>

NextLoop ==
    \/ \E l \in LoopLocators : add_port(l, PyBool(TRUE), PyBool(FALSE), NoKwargs, TRUE, TRUE)
    \/ \E l \in LoopLocators : switch_port(l)
    \/ \E enc \in Encodings : set_encoding(enc)
    \/ \E data \in LoopTexts, enc \in EncodingArgs, l \in LoopLocators \cup {None} :
            /\ NothingUnread(l)
            /\ write_data(data, enc, l)
    \/ \E enc \in EncodingArgs, l \in LoopLocators \cup {None} : read_all_data(enc, l)

SpecLoop == InitParam /\ [][NextLoop]_vars

----------------------------------------------------------------------------
(* The claims *)

Registry == <<ports, current, defaults, leaked, encoding>>

MostRecentlyInserted(ps) == IF Len(ps) = 0 THEN None ELSE ps[Len(ps)].locator

\* C1: in every reachable state the current port locator is None or a key of
\* the port mapping.
C1_CurrentIsRegistered == current = None \/ current \in KeySet(ports)

\* C2: whenever delete_port removes the entry that is current, the current
\* locator becomes the most recently inserted of the entries left, or None when
\* none is left.
C2_DeleteCurrentPromotesMostRecent ==
    [][(/\ last'.op = "delete_port"
        /\ last'.target = current
        /\ current \in KeySet(ports)
        /\ current \notin KeySet(ports'))
       => current' = MostRecentlyInserted(ports')]_vars

\* C2, for the calls of delete_port that return: the rule of C2 holds of them.
C2_CompletedDeletePromotesMostRecent ==
    [][(/\ last'.op = "delete_port"
        /\ last'.result = "ok"
        /\ last'.target = current)
       => /\ KeySet(ports') = KeySet(ports) \ {current}
          /\ current' = MostRecentlyInserted(ports')]_vars

\* C3: the port given at construction is current, and an add_port that returns
\* makes its locator current if there was no current port or make_current is
\* true, and leaves the current locator as it was otherwise.
C3_AddMakesCurrentWhenFirstOrAsked ==
    /\ (last.op = "__init__" /\ last.locator # None => current = last.locator)
    /\ [][(last'.op = "add_port" /\ last'.result = "ok")
          => /\ last'.locator \in KeySet(ports')
             /\ IF current = None \/ last'.arg = PyBool(TRUE)
                THEN current' = last'.locator
                ELSE current' = current]_vars

\* a second port was added without make_current and the first stayed current
C3_Witness ==
    /\ last.op = "add_port" /\ last.result = "ok"
    /\ last.arg = PyBool(FALSE)
    /\ last.prev # None
    /\ current = last.prev
    /\ current # last.locator
    /\ Len(ports) >= 2

\* C4: add_port with a locator in use, or with the empty or the reserved
\* locator, fails as a usage failure, constructs no handle and leaves the
\* mapping, its handles, the current locator and the defaults as they were; the
\* mapping never has the empty or the reserved locator as a key.
C4_AddRejectsDuplicateAndReserved ==
    /\ []("" \notin KeySet(ports) /\ "_" \notin KeySet(ports))
    /\ [][(last'.op = "add_port" /\ (last'.locator \in {"", "_"} \/ last'.locator \in KeySet(ports)))
          => /\ last'.result = "usage"
             /\ ~last'.constructed
             /\ UNCHANGED Registry]_vars

\* add_port was refused for a locator in use, which is still in the mapping
C4_Witness ==
    /\ last.op = "add_port" /\ last.result = "usage"
    /\ last.locator \in KeySet(ports)
    /\ ~last.constructed

\* C5: a call that fails leaves the port mapping, every handle, the current
\* locator and the defaults as they were before the call.
C5_FailedCallChangesNothing ==
    [][last'.result # "ok" => UNCHANGED Registry]_vars

\* C6: _port changes nothing; it returns the handle under the locator given, or
\* under the current locator for None and '_'; when the mapping has no such
\* entry it fails if fail is true and returns None if fail is false.
C6_ResolveReturnsHandleOrFails ==
    [][last'.op = "_port"
       => LET l == last'.locator
              wanted == IF l = None \/ l = "_" THEN current ELSE l
          IN  /\ UNCHANGED Registry
              /\ IF wanted \in KeySet(ports)
                 THEN last'.result = "ok" /\ last'.ret = PyStr(wanted)
                 ELSE IF last'.arg = PyBool(TRUE)
                      THEN last'.result = "usage"
                      ELSE last'.result = "ok" /\ last'.ret = PyNone]_vars

\* the reserved token resolved to the handle of the current port, which is not
\* the only port
C6_Witness ==
    /\ last.op = "_port" /\ last.locator = "_" /\ last.result = "ok"
    /\ last.ret = PyStr(current)
    /\ current \in KeySet(ports)
    /\ Len(ports) >= 2

\* C7: switch_port with a locator of the mapping makes it current and changes
\* nothing else; with any other locator it fails and changes nothing.
C7_SwitchSetsCurrentOnly ==
    [][last'.op = "switch_port"
       => IF last'.locator \in KeySet(ports)
          THEN /\ last'.result = "ok"
               /\ current' = last'.locator
               /\ UNCHANGED <<ports, defaults, leaked>>
          ELSE /\ last'.result = "usage"
               /\ UNCHANGED Registry]_vars

\* switch_port moved the current port from the last inserted port to the first
C7_Witness ==
    /\ last.op = "switch_port" /\ last.result = "ok"
    /\ Len(ports) >= 2
    /\ last.prev = ports[Len(ports)].locator
    /\ current = ports[1].locator
    /\ current = last.locator

\* C8: no handle that the mapping no longer holds is open.
C8_NoOpenHandleOutsideRegistry == ~leaked

\* C9: delete_all_ports ends with the mapping empty, the current locator None
\* and no handle left open; the next _port for the current port fails and the
\* next add_port makes its locator current.
C9_DeleteAllEmptiesRegistry ==
    [][/\ last'.op = "delete_all_ports"
          => /\ Len(ports') = 0
             /\ current' = None
             /\ leaked' = leaked
       /\ (last.op = "delete_all_ports" /\ last'.op = "_port"
             /\ last'.locator \in {None, "_"} /\ last'.arg = PyBool(TRUE))
          => last'.result = "usage"
       /\ (last.op = "delete_all_ports" /\ last'.op = "add_port" /\ last'.result = "ok")
          => current' = last'.locator]_vars

\* C9, what delete_all_ports does in every case: it sets the current locator
\* to None; it returns, with the mapping empty and every handle closed, unless
\* the close of an open handle raises, and then it ends with that handle
\* removed and still open and the entries inserted before it left in the
\* mapping; after it, the next _port for the current port fails and the next
\* add_port makes its locator current.
C9_DeleteAllEmptiesUnlessCloseRaises ==
    [][/\ last'.op = "delete_all_ports"
          => /\ current' = None
             /\ defaults' = defaults
             /\ (\A i \in 1..Len(ports) : ~ports[i].port.is_open) => last'.result = "ok"
             /\ IF last'.result = "ok"
                THEN Len(ports') = 0 /\ leaked' = leaked
                ELSE /\ last'.result = "transport"
                     /\ Len(ports') < Len(ports)
                     /\ ports' = SubSeq(ports, 1, Len(ports'))
                     /\ ports[Len(ports') + 1].locator = last'.target
                     /\ ports[Len(ports') + 1].port.is_open
                     /\ leaked'
       /\ (last.op = "delete_all_ports" /\ last'.op = "_port"
             /\ last'.locator \in {None, "_"} /\ last'.arg = PyBool(TRUE))
          => last'.result = "usage"
       /\ (last.op = "delete_all_ports" /\ last'.op = "add_port" /\ last'.result = "ok")
          => current' = last'.locator]_vars

\* C10: set_port_parameter returns the value the parameter had and stores the
\* value converted to the type of the default of that name, on the port it
\* resolved and nowhere else; get_port_parameter returns the stored value, so
\* after a set it returns the converted value; with a name that is not a
\* parameter both fail and change nothing.
C10_SetThenGetParameter ==
    [][/\ (last'.op = "set_port_parameter" /\ last'.result = "ok")
          => LET name == last'.name
                 at == IndexOf(ports, last'.target)
             IN  /\ last'.target = (IF last'.locator = None THEN current ELSE last'.locator)
                 /\ last'.ret = ports[at].port.settings[name]
                 /\ Keys(ports') = Keys(ports)
                 /\ ports'[at].port.settings[name] = CoerceTo(defaults[name], last'.arg)
                 /\ \A i \in 1..Len(ports) : \A k \in ParamNames :
                        (i # at \/ k # name) => ports'[i].port.settings[k] = ports[i].port.settings[k]
                 /\ UNCHANGED <<current, defaults>>
       /\ (last'.op = "get_port_parameter" /\ last'.result = "ok")
          => /\ last'.ret = Get(ports, last'.target).settings[last'.name]
             /\ UNCHANGED Registry
       /\ (/\ last.op = "set_port_parameter" /\ last.result = "ok"
           /\ last'.op = "get_port_parameter" /\ last'.result = "ok"
           /\ last'.name = last.name /\ last'.target = last.target)
          => last'.ret = CoerceTo(defaults[last.name], last.arg)
       /\ (last'.op \in {"get_port_parameter", "set_port_parameter"} /\ last'.name \notin ParamNames)
          => last'.result = "usage" /\ UNCHANGED Registry
       /\ (/\ last'.op \in {"get_port_parameter", "set_port_parameter"}
           /\ last'.name \in ParamNames
           /\ (IF last'.locator = None THEN current ELSE last'.locator) \in KeySet(ports)
           /\ (last'.op = "set_port_parameter" => CoerceTo(defaults[last'.name], last'.arg) # PyError))
          => last'.result = "ok"]_vars

\* the baud rate of one of two ports was set from the string "19200": the
\* call returned the former 9600, the port has the integer 19200 and the
\* other port still has 9600
C10_Witness ==
    /\ last.op = "set_port_parameter" /\ last.result = "ok"
    /\ last.name = "baudrate" /\ last.arg = PyStr("19200")
    /\ last.ret = PyInt(9600)
    /\ Len(ports) = 2
    /\ Get(ports, last.target).settings["baudrate"] = PyInt(19200)
    /\ \E i \in 1..Len(ports) :
          ports[i].locator # last.target /\ ports[i].port.settings["baudrate"] = PyInt(9600)

----------------------------------------------------------------------------
(* The string forms of booleans *)

\* the strings said to be true: ON, TRUE, YES and 1 in any case
FormIsTrue(v) == v.t = "str" /\ Upper(v.s) \in {"ON", "TRUE", "YES", "1"}

\* the strings said to be false: OFF, FALSE, NO, 0 and the empty string
FormIsFalse(v) == v.t = "str" /\ Upper(v.s) \in {"OFF", "FALSE", "NO", "0", ""}

\* C11: a boolean-like argument given as one of the strings OFF, FALSE, NO, 0
\* or the empty string (any case) is taken as false and given as ON, TRUE, YES
\* or 1 as true: by add_port for open and for make_current, and for xonxoff
\* given as an override to add_port, as a value to set_port_parameter or as a
\* value to set_default_parameters.
C11_StringFormsAreBooleans ==
    [][/\ \A l \in ParamLocators, open \in TruthArgs :
            (add_port(l, open, PyBool(FALSE), NoKwargs, TRUE, TRUE) /\ last'.result = "ok")
            => Get(ports', l).is_open = FormIsTrue(open)
       /\ (last'.op = "add_port" /\ last'.result = "ok" /\ last'.arg \in TruthArgs /\ current # None)
            => current' = IF FormIsTrue(last'.arg) THEN last'.locator ELSE current
       /\ \A l \in ParamLocators, value \in TruthArgs :
            (add_port(l, PyBool(TRUE), PyBool(FALSE), Dict1("xonxoff", value), TRUE, TRUE) /\ last'.result = "ok")
            => Get(ports', l).settings["xonxoff"] = PyBool(FormIsTrue(value))
       /\ (last'.op = "set_port_parameter" /\ last'.result = "ok")
            => Get(ports', last'.target).settings["xonxoff"] = PyBool(FormIsTrue(last'.arg))
       /\ \A value \in TruthArgs :
            (set_default_parameters(Dict1("xonxoff", value), <<"xonxoff">>) /\ last'.result = "ok")
            => defaults'["xonxoff"] = PyBool(FormIsTrue(value))]_vars

\* C11, as the registry keywords take the strings: open is false for the
\* strings said to be false and true for the others; make_current and the
\* values of xonxoff are false for the empty string only, so OFF, FALSE, NO
\* and 0 are true for them.
C11_OnlyOpenTakesTheFalseForms ==
    [][/\ \A l \in ParamLocators, open \in TruthArgs :
            (add_port(l, open, PyBool(FALSE), NoKwargs, TRUE, TRUE) /\ last'.result = "ok")
            => Get(ports', l).is_open = FormIsTrue(open)
       /\ (last'.op = "add_port" /\ last'.result = "ok" /\ last'.arg \in TruthArgs /\ current # None)
            => current' = IF last'.arg # PyStr("") THEN last'.locator ELSE current
       /\ \A l \in ParamLocators, value \in TruthArgs :
            (add_port(l, PyBool(TRUE), PyBool(FALSE), Dict1("xonxoff", value), TRUE, TRUE) /\ last'.result = "ok")
            => Get(ports', l).settings["xonxoff"] = PyBool(value # PyStr(""))
       /\ (last'.op = "set_port_parameter" /\ last'.result = "ok")
            => Get(ports', last'.target).settings["xonxoff"] = PyBool(last'.arg # PyStr(""))
       /\ \A value \in TruthArgs :
            (set_default_parameters(Dict1("xonxoff", value), <<"xonxoff">>) /\ last'.result = "ok")
            => defaults'["xonxoff"] = PyBool(value # PyStr(""))]_vars

\* C11, for the keywords of the control lines: set_rts, set_dtr and
\* set_rs485_mode store the truth value said of the string, and _attr_should_be
\* passes exactly when the line has the truth value said of the string.
C11_ControlLinesTakeTheForms ==
    [][/\ (last'.op = "set_rts" /\ last'.result = "ok" /\ last'.arg \in TruthArgs)
            => Get(ports', last'.target).rts = IF FormIsTrue(last'.arg) THEN 1 ELSE 0
       /\ (last'.op = "set_dtr" /\ last'.result = "ok" /\ last'.arg \in TruthArgs)
            => Get(ports', last'.target).dtr = FormIsTrue(last'.arg)
       /\ (last'.op = "set_rs485_mode" /\ last'.result = "ok" /\ last'.arg \in TruthArgs)
            => Get(ports', last'.target).rs485_mode = FormIsTrue(last'.arg)
       /\ (last'.op = "_attr_should_be" /\ last'.arg \in TruthArgs /\ last'.target \in KeySet(ports))
            => LET port == Get(ports, last'.target)
                   asserted == IF last'.name = "rts" THEN port.rts = 1 ELSE port.dtr
               IN  /\ UNCHANGED Registry
                   /\ (last'.result = "ok") <=> (FormIsTrue(last'.arg) <=> asserted)]_vars

----------------------------------------------------------------------------
(* The encoding of a call *)

EncodeWith(name, text) == IF name = "hexlify" THEN hex_encode(text) ELSE ascii_encode(text)

DecodeWith(name, data) == IF name = "hexlify" THEN hexlify_decode_plus(data) ELSE ascii_decode(data)

\* the bytes a reading call took from the port it read
Taken(target) ==
    LET before == Get(ports, target).buffer
        after == Get(ports', target).buffer
    IN  SubSeq(before, 1, Len(before) - Len(after))

\* C12: every conversion between text and bytes of write_data, read_all_data,
\* read_n_bytes, read_until (its terminator too) and read_data_should_be is made
\* with the encoding argument of the call when one is given, and with the
\* encoding of the instance when it is omitted.
C12_ConversionsUseTheEncodingGiven ==
    [][LET E == IF last'.name = None THEN encoding ELSE last'.name
           target == last'.target
       IN  /\ (last'.op = "write_data" /\ last'.result = "ok")
                => Get(ports', target).buffer = Get(ports, target).buffer \o EncodeWith(E, last'.arg)
           /\ (last'.op = "read_all_data" /\ last'.result = "ok")
                => last'.ret = DecodeWith(E, Get(ports, target).buffer)
           /\ (last'.op = "read_n_bytes" /\ last'.result = "ok")
                => last'.ret = DecodeWith(E, Taken(target))
           /\ (last'.op = "read_until" /\ last'.result = "ok")
                => /\ last'.ret = DecodeWith(E, Taken(target))
                   /\ last'.arg # LF
                        => /\ EncodeWith(E, last'.arg) # CodecError
                           /\ Len(Taken(target)) =
                                ReadUntilLength(Get(ports, target).buffer, EncodeWith(E, last'.arg), PyNone)
           /\ (last'.op = "read_data_should_be" /\ last'.result \in {"ok", "usage"} /\ target \in KeySet(ports))
                => (last'.result = "ok" <=> Get(ports, target).buffer = EncodeWith(E, last'.arg))]_vars

\* C12, as the keywords convert: write_data, read_all_data, read_data_should_be
\* and the result of read_until use the encoding argument when one is given;
\* read_n_bytes and the terminator of read_until always use the encoding of
\* the instance.
C12_ReadNBytesAndTerminatorUseTheInstanceEncoding ==
    [][LET E == IF last'.name = None THEN encoding ELSE last'.name
           target == last'.target
       IN  /\ (last'.op = "write_data" /\ last'.result = "ok")
                => Get(ports', target).buffer = Get(ports, target).buffer \o EncodeWith(E, last'.arg)
           /\ (last'.op = "read_all_data" /\ last'.result = "ok")
                => last'.ret = DecodeWith(E, Get(ports, target).buffer)
           /\ (last'.op = "read_n_bytes" /\ last'.result = "ok")
                => last'.ret = DecodeWith(encoding, Taken(target))
           /\ (last'.op = "read_until" /\ last'.result = "ok")
                => /\ last'.ret = DecodeWith(E, Taken(target))
                   /\ last'.arg # LF
                        => /\ EncodeWith(encoding, last'.arg) # CodecError
                           /\ Len(Taken(target)) =
                                ReadUntilLength(Get(ports, target).buffer, EncodeWith(encoding, last'.arg), PyNone)
           /\ (last'.op = "read_data_should_be" /\ last'.result \in {"ok", "usage"} /\ target \in KeySet(ports))
                => (last'.result = "ok" <=> Get(ports, target).buffer = EncodeWith(E, last'.arg))]_vars

----------------------------------------------------------------------------
(* The round trip *)

\* a text of hexlify in the form hex_decode writes: pairs of upper-case
\* hexadecimal digits with one space between them
IsCanonicalHex(text) ==
    \/ text = <<>>
    \/ /\ Len(text) % 3 = 2
       /\ \A i \in DOMAIN text :
             IF i % 3 = 0
             THEN text[i] = 32
             ELSE (48 <= text[i] /\ text[i] <= 57) \/ (65 <= text[i] /\ text[i] <= 70)

\* read_all_data reads what the write_data before it wrote, on the same port
\* and with the same encoding
ReadsBackTheWrite ==
    /\ last.op = "write_data" /\ last.result = "ok"
    /\ last'.op = "read_all_data" /\ last'.result = "ok"
    /\ last'.target = last.target
    /\ (IF last'.name = None THEN encoding ELSE last'.name) = (IF last.name = None THEN encoding ELSE last.name)

\* the ports other than the target of the call are as they were
OtherPortsUntouched ==
    /\ Keys(ports') = Keys(ports)
    /\ \A i \in DOMAIN ports : ports[i].locator # last'.target => ports'[i] = ports[i]

\* C13, as stated: a text written with write_data under an encoding and read
\* back by read_all_data under the same encoding on the same port is returned
\* exactly, for hexlify and for ascii; and a write to one port or a read of it
\* leaves every other port's unread data as it was.
C13_RoundTripReturnsTheText ==
    [][/\ ReadsBackTheWrite => last'.ret = last.arg
       /\ (last'.op \in {"write_data", "read_all_data"} /\ last'.result = "ok") => OtherPortsUntouched]_vars

\* C13, amended: under ascii the text written is returned exactly; under
\* hexlify the text returned is the canonical form of the text written (it is
\* in canonical form and encodes to the same bytes), hence the text written
\* itself when that is in canonical form; and a write to one port or a read of
\* it leaves every other port's unread data as it was.
C13_RoundTripReturnsTheCanonicalText ==
    [][/\ ReadsBackTheWrite =>
            IF (IF last.name = None THEN encoding ELSE last.name) = "hexlify"
            THEN /\ IsCanonicalHex(last'.ret)
                 /\ hex_encode(last'.ret) = hex_encode(last.arg)
                 /\ IsCanonicalHex(last.arg) => last'.ret = last.arg
            ELSE last'.ret = last.arg
       /\ (last'.op \in {"write_data", "read_all_data"} /\ last'.result = "ok") => OtherPortsUntouched]_vars

\* read_all_data under hexlify returned the text '41 42' from one port while
\* the other port holds bytes written to it and not yet read
C13_Witness ==
    /\ last.op = "read_all_data" /\ last.result = "ok"
    /\ last.ret = Text_41_42
    /\ (IF last.name = None THEN encoding ELSE last.name) = "hexlify"
    /\ Len(ports) = 2
    /\ Get(ports, last.target).buffer = <<>>
    /\ \E i \in DOMAIN ports : ports[i].locator # last.target /\ ports[i].port.buffer # <<>>

----------------------------------------------------------------------------
(* The default parameter set *)

\* C14: set_default_parameters returns the defaults as they were before the
\* call; it changes only keys the defaults have, each to the value given
\* converted to the type of the stored value, and ignores every other key, so
\* the defaults have the same keys in every reachable state; neither it nor
\* reset_default_parameters changes a port of the mapping; a port added later
\* has, for each parameter, the caller's override (converted to the type of the
\* default) if one is given and the default of that moment otherwise.
C14_DefaultsKeepKeysAndApplyToLaterAdds ==
    /\ [](DOMAIN defaults = ParamNames)
    /\ [][/\ last'.op = "set_default_parameters"
             => LET params == last'.arg
                IN  /\ UNCHANGED <<ports, current>>
                    /\ \A k \in ParamNames \ DOMAIN params : defaults'[k] = defaults[k]
                    /\ \A k \in ParamNames : defaults'[k].t = defaults[k].t
                    /\ last'.result = "ok"
                         => /\ last'.ret = defaults
                            /\ \A k \in ParamNames \cap DOMAIN params :
                                  defaults'[k] = CoerceTo(defaults[k], params[k])
                    /\ (DOMAIN params \cap ParamNames = {})
                         => last'.result = "ok" /\ defaults' = defaults
          /\ last'.op = "reset_default_parameters"
             => defaults' = DEFAULT_SETTINGS /\ UNCHANGED <<ports, current>>
          /\ \A l \in ParamLocators, kwargs \in KwargsArgs :
                (add_port(l, PyBool(TRUE), PyBool(FALSE), kwargs, TRUE, TRUE) /\ last'.result = "ok")
                => /\ \A k \in ParamNames :
                         Get(ports', l).settings[k] =
                            IF k \in DOMAIN kwargs THEN CoerceTo(defaults[k], kwargs[k]) ELSE defaults[k]
                   /\ SubSeq(ports', 1, Len(ports)) = ports
                   /\ defaults' = defaults]_vars

\* the baud rate of the defaults was set to 19200 between two calls of
\* add_port: the port added before has 9600 and the port added after 19200
C14_Witness ==
    /\ last.op = "add_port" /\ last.result = "ok"
    /\ Len(ports) = 2
    /\ ports[2].locator = last.locator
    /\ defaults["baudrate"] = PyInt(19200)
    /\ ports[1].port.settings["baudrate"] = PyInt(9600)
    /\ ports[2].port.settings["baudrate"] = PyInt(19200)

----------------------------------------------------------------------------
(* The current port of a registry whose calls return or fail as usage       *)
(* failures                                                                 *)

\* C15: when every call of add_port, delete_port, delete_all_ports and
\* switch_port returns or fails as a usage failure, the current locator is None
\* exactly when the mapping is empty, so a mapping with ports has a current
\* port, which is one of its keys; and a delete_port of a port that is not
\* current leaves the current locator as it was.
C15_CurrentIsNoneIffEmpty ==
    /\ [](last.result \in {"ok", "usage"})
    /\ []((current = None) <=> (Len(ports) = 0))
    /\ [](Len(ports) > 0 => current \in KeySet(ports))
    /\ [][(last'.op = "delete_port" /\ last'.result = "ok" /\ last'.target # current)
          => current' = current]_vars

\* delete_port removed a port that was not current: another port is left and
\* is still the current one
C15_Witness ==
    /\ last.op = "delete_port" /\ last.result = "ok"
    /\ last.target # last.prev
    /\ current = last.prev
    /\ current \in KeySet(ports)
    /\ last.target \notin KeySet(ports)
====
